---- MODULE Spec2Model ----
(***************************************************************************)
(* Model of app/main.py: the WebSocket connection manager (membership list *)
(* and fan-out broadcast), the per-connection relay loop, and the          *)
(* telemetry and photo ingestion handlers that feed the broadcast.         *)
(*                                                                         *)
(* The program runs on one asyncio event loop: code between two awaits is  *)
(* one atomic step, and every await is a point where any other task may    *)
(* run.  Each action below is one such step of one task.  The sqlite3,     *)
(* requests and file calls are blocking calls made from coroutines, so     *)
(* they do not yield and are part of the step that makes them.             *)
(***************************************************************************)
EXTENDS Integers, Sequences, FiniteSets, TLC

(***************************************************************************)
(* Configuration and inputs                                                *)
(***************************************************************************)
AUTH_TOKEN == "change-this-secret"
PHOTOS_DIR == "/data/photos"
WS_CLOSE_AUTH == 4001
HTTP_FORBIDDEN == 403
HTTP_ERROR == 500

\* The websocket tasks and the HTTP request tasks of one run, named in the
\* order in which the server starts them.
ConnOrder == <<"w1", "w2", "w3">>
ReqOrder == <<"q1">>
Conns == {ConnOrder[i] : i \in 1..Len(ConnOrder)}
Reqs == {ReqOrder[i] : i \in 1..Len(ReqOrder)}
Tasks == Conns \cup Reqs

\* The websockets of a run that also has an ingestion request.
Viewers == {"w1", "w2"}

\* Tokens a client may present.
Tokens == {AUTH_TOKEN, "guess"}
\* Text frames a client may send.
Texts == {"hello", "ack"}
\* The text frames of a relay-only run, in the order the server reads them.
Script == <<"hello", "ack", "land", "rtl">>

\* Inbound text frames read in a relay-only run (MaxMsgs) and in a run with
\* an ingestion request (MaxRelays), and the range of the clock.
MaxMsgs == 2
MaxRelays == 1
MaxClock == 1
\* Inbound text frames read in a relay-only run with fair sends.
MaxFairMsgs == 1
\* The rows of the table and the range of their times when a query starts.
MaxRows == 3
MaxTime == 3

(***************************************************************************)
(* Python values: None, str and numbers (kept as their literal text)       *)
(***************************************************************************)
PyNone == <<"none">>
PyStr(s) == <<"str", s>>
PyNum(s) == <<"num", s>>

\* bool(v) for the values above.
Truthy(v) == v # PyNone /\ v[2] # "" /\ v # PyNum("0")

\* `a or b`
PyOr(a, b) == IF Truthy(a) THEN a ELSE b

\* str(v), as an f-string formats it.
Str(v) == IF v = PyNone THEN "None" ELSE v[2]

\* json.dumps of a scalar.
JsonLit(v) ==
    IF v = PyNone THEN "null"
    ELSE IF v[1] = "str" THEN "\"" \o v[2] \o "\""
    ELSE v[2]

\* A dict is the sequence of its <<key, value>> items in insertion order.
RECURSIVE DictGet(_, _)
DictGet(d, k) ==
    IF d = <<>> THEN PyNone
    ELSE IF d[Len(d)][1] = k THEN d[Len(d)][2]
    ELSE DictGet(SubSeq(d, 1, Len(d) - 1), k)

\* json.dumps of a dict whose values are already serialised.
RECURSIVE JsonItems(_)
JsonItems(d) ==
    IF d = <<>> THEN ""
    ELSE "\"" \o d[1][1] \o "\": " \o d[1][2]
         \o (IF Len(d) > 1 THEN ", " ELSE "")
         \o JsonItems(Tail(d))

JsonObject(d) == "{" \o JsonItems(d) \o "}"

JsonDumpsDict(d) ==
    JsonObject([i \in 1..Len(d) |-> <<d[i][1], JsonLit(d[i][2])>>])

\* Telemetry request bodies: a full sample, a partial one with an unknown key.
Payloads ==
    { << <<"lat", PyNum("11.11")>>, <<"lon", PyNum("75.75")>>,
         <<"alt", PyNum("10")>>, <<"batt", PyNum("88")>>,
         <<"meta", PyStr("x")>> >>,
      << <<"lat", PyNum("1.5")>>, <<"extra", PyNone>> >> }

(***************************************************************************)
(* State                                                                   *)
(***************************************************************************)
VARIABLES
    active,     \* manager.active: the list of admitted websockets
    ws,         \* per websocket task: position in websocket_endpoint
    req,        \* per HTTP request task: position in its handler
    frame,      \* per task: its latest call of manager.broadcast
    wire,       \* per websocket: the send_text calls made on it, in order
    store,      \* rows of the telemetry table, in insertion order
    disk,       \* files under PHOTOS_DIR: a set of <<path, contents>>
    clock,      \* the wall clock
    cloud,      \* CLOUDINARY_UPLOAD_URL and CLOUDINARY_UPLOAD_PRESET are set
    public_url  \* PUBLIC_URL, as a sequence of pieces

vars == <<active, ws, req, frame, wire, store, disk, clock, cloud, public_url>>

\* `sender=None`
NoSender == "none"

\* `x in lst`
In(lst, x) == \E i \in 1..Len(lst) : lst[i] = x

\* Task t is the next of its kind to start.
IsNext(order, started, t) ==
    \E i \in 1..Len(order) :
        /\ order[i] = t
        /\ \A j \in 1..(i - 1) : started[order[j]].pc # "new"

RECURSIVE SumRecv(_, _)
SumRecv(w, S) ==
    IF S = {} THEN 0
    ELSE LET c == CHOOSE x \in S : TRUE
         IN w[c].nrecv + SumRecv(w, S \ {c})

\* What a list operation leaves in place of the list when it raises
\* ValueError.
ValueError == <<"ValueError">>

RECURSIVE DropFirst(_, _)
DropFirst(lst, x) ==
    IF lst = <<>> THEN <<>>
    ELSE IF Head(lst) = x THEN Tail(lst)
    ELSE <<Head(lst)>> \o DropFirst(Tail(lst), x)

\* list.remove(x): drops the first occurrence, and raises ValueError when
\* there is none.
ListRemove(lst, x) == IF In(lst, x) THEN DropFirst(lst, x) ELSE ValueError


(***************************************************************************)
(* ConnectionManager                                                       *)
(***************************************************************************)
\* connect without its token check.
connect_admits_any(token) == TRUE

\* connect: `if token != AUTH_TOKEN` is false.
connect_admits(token) == token = AUTH_TOKEN

\* connect appending the socket before and after accept().
connect_append_twice(lst, websocket) == Append(Append(lst, websocket), websocket)

\* connect's self.active.append(websocket)
connect_append(lst, websocket) == Append(lst, websocket)

\* disconnect without `if websocket in self.active`.
disconnect_unguarded(lst, websocket) == ListRemove(lst, websocket)

\* disconnect(websocket)
disconnect(lst, websocket) ==
    IF In(lst, websocket) THEN ListRemove(lst, websocket) ELSE lst

\* broadcast's for loop without `if conn == sender: continue`.
broadcast_next_echo(snap, sender, i) == i

\* broadcast's for loop with a `break` after its first send.
broadcast_next_break(snap, sender, i) ==
    IF i = 1 /\ snap # <<>> /\ snap[1] # sender THEN 1 ELSE Len(snap) + 1

\* broadcast's for loop going back to the connection it has just sent to.
broadcast_next_repeat(snap, sender, i) ==
    IF i > 1 /\ i <= Len(snap) + 1 THEN i - 1 ELSE i

\* broadcast's for loop: the index of the first connection at or after i
\* that is not skipped by `if conn == sender: continue`; Len(snap) + 1 when
\* the loop is over.
RECURSIVE broadcast_next(_, _, _)
broadcast_next(snap, sender, i) ==
    IF i > Len(snap) THEN i
    ELSE IF snap[i] = sender THEN broadcast_next(snap, sender, i + 1)
    ELSE i

\* broadcast with `except Exception: pass`: the dead socket stays a member.
broadcast_on_fail_keep(lst, conn) == [active |-> lst, raise |-> FALSE]

\* broadcast with `except Exception: self.disconnect(conn); raise`.
broadcast_on_fail_raise(lst, conn) ==
    [active |-> disconnect(lst, conn), raise |-> TRUE]

\* broadcast's `except Exception: self.disconnect(conn)`: the membership
\* after a failed send, and whether the exception leaves broadcast.
broadcast_on_fail(lst, conn) ==
    [active |-> disconnect(lst, conn), raise |-> FALSE]

\* The frame of one call of broadcast.  snap is list(self.active), i the
\* index of the connection whose send_text is awaited.  A task keeps its
\* latest frame after the call is over (i past the end, or raised).
FirstFrame ==
    [id |-> 0, msg |-> "", sender |-> NoSender, snap |-> <<>>, i |-> 1,
     raised |-> FALSE]

Running(f) == ~f.raised /\ f.i <= Len(f.snap)
Returned(f) == ~f.raised /\ f.i > Len(f.snap)

\* broadcast iterating over every websocket the server knows instead of
\* list(self.active).
broadcast_everyone(t, message, sender) ==
    [id |-> frame[t].id + 1, msg |-> message, sender |-> sender,
     snap |-> ConnOrder, i |-> broadcast_next(ConnOrder, sender, 1),
     raised |-> FALSE]

\* broadcast(message, sender) up to its first await.
broadcast(t, message, sender) ==
    [id |-> frame[t].id + 1, msg |-> message, sender |-> sender,
     snap |-> active, i |-> broadcast_next(active, sender, 1),
     raised |-> FALSE]

(***************************************************************************)
(* websocket_endpoint                                                      *)
(***************************************************************************)
\* The relay loop with broadcast started as a task of its own instead of
\* awaited: the loop is back at receive_text at once.
relay_after_detached(c, f, lst) ==
    IF f.raised THEN [pc |-> "faulted", active |-> disconnect(lst, c)]
    ELSE [pc |-> "receiving", active |-> lst]

\* The relay loop after its broadcast call made a step: awaiting a send,
\* back at receive_text, or in `except Exception: manager.disconnect`.
relay_after(c, f, lst) ==
    IF Running(f) THEN [pc |-> "sending", active |-> lst]
    ELSE IF f.raised THEN [pc |-> "faulted", active |-> disconnect(lst, c)]
    ELSE [pc |-> "receiving", active |-> lst]

\* `except WebSocketDisconnect: manager.disconnect(websocket)`
relay_on_disconnect(lst, c) == disconnect(lst, c)

\* `except Exception: pass`
relay_on_fault_keep(lst, c) == lst

\* `except Exception: manager.disconnect(websocket)`
relay_on_fault(lst, c) == disconnect(lst, c)

\* The endpoint is called; connect checks the token, and either closes the
\* socket with 4001 and returns False, or awaits accept().
WsOpen(c, token) ==
    /\ ws[c].pc = "new"
    /\ IsNext(ConnOrder, ws, c)
    /\ ws' = [ws EXCEPT ![c] =
                IF connect_admits(token)
                THEN [@ EXCEPT !.pc = "accepting", !.token = token]
                ELSE [@ EXCEPT !.pc = "rejected", !.token = token,
                               !.close = WS_CLOSE_AUTH]]
    /\ UNCHANGED <<active, req, frame, wire, store, disk, clock, cloud,
                   public_url>>

\* accept() returned: connect appends the socket and returns True; the
\* endpoint enters the loop and awaits receive_text.
WsAccepted(c) ==
    /\ ws[c].pc = "accepting"
    /\ active' = connect_append(active, c)
    /\ ws' = [ws EXCEPT ![c].pc = "receiving"]
    /\ UNCHANGED <<req, frame, wire, store, disk, clock, cloud, public_url>>

\* accept() raised: the exception leaves connect and the endpoint (the call
\* of connect is outside the try).
WsAcceptFails(c) ==
    /\ ws[c].pc = "accepting"
    /\ ws' = [ws EXCEPT ![c].pc = "aborted"]
    /\ UNCHANGED <<active, req, frame, wire, store, disk, clock, cloud,
                   public_url>>

\* receive_text returned data: broadcast(data, sender=websocket) runs up to
\* its first await, or to its end when there is nobody to send to.
WsReceive(c, data) ==
    /\ ws[c].pc = "receiving"
    /\ LET f == broadcast(c, data, c)
           k == relay_after(c, f, active)
       IN /\ frame' = [frame EXCEPT ![c] = f]
          /\ ws' = [ws EXCEPT ![c].pc = k.pc, ![c].nrecv = @ + 1,
                               ![c].data = data]
          /\ active' = k.active
    /\ UNCHANGED <<req, wire, store, disk, clock, cloud, public_url>>

\* receive_text raised WebSocketDisconnect.
WsDisconnect(c) ==
    /\ ws[c].pc = "receiving"
    /\ active' = relay_on_disconnect(active, c)
    /\ ws' = [ws EXCEPT ![c].pc = "disconnected"]
    /\ UNCHANGED <<req, frame, wire, store, disk, clock, cloud, public_url>>

\* receive_text raised another Exception (a binary frame, a protocol error).
\* The cancellation of the task when the server stops is not an Exception
\* and is not a step of the model.
WsFault(c) ==
    /\ ws[c].pc = "receiving"
    /\ active' = relay_on_fault(active, c)
    /\ ws' = [ws EXCEPT ![c].pc = "faulted"]
    /\ UNCHANGED <<req, frame, wire, store, disk, clock, cloud, public_url>>

(***************************************************************************)
(* HTTP responses                                                          *)
(***************************************************************************)
NoResp == [status |-> "pending"]
OkResp == [status |-> "ok"]
OkUrlResp(url) == [status |-> "ok", url |-> url]
OkRawResp(url, raw) == [status |-> "ok", url |-> url, raw |-> raw]
ErrorResp(detail) ==
    [status |-> "error", status_code |-> HTTP_ERROR, detail |-> detail]
ForbiddenResp == [status |-> "forbidden", status_code |-> HTTP_FORBIDDEN]

\* No requests.post was made, no file was opened.
NoPost == [fault |-> FALSE, status |-> 0, body |-> <<>>]
NoWrite == "none"

\* A request task before its handler is called.  db, r and w are what the
\* sqlite3 calls, requests.post and the file write of the request did;
\* limit is the limit of a query.
NewReq ==
    [pc |-> "new", kind |-> "", token |-> "", payload |-> <<>>,
     filename |-> <<>>, contents |-> "", db |-> "none", posts |-> 0,
     r |-> NoPost, w |-> NoWrite, url |-> PyNone, limit |-> 0,
     resp |-> NoResp]

\* The handler after its broadcast call made a step: awaiting a send, or
\* past `except Exception: pass` at its return statement.
handler_after(r, f) ==
    IF Running(f) THEN [r EXCEPT !.pc = "sending"]
    ELSE [r EXCEPT !.pc = "done",
                   !.resp = IF r.kind = "telemetry" THEN OkResp
                            ELSE IF r.r # NoPost THEN OkRawResp(r.url, r.r.body)
                            ELSE OkUrlResp(r.url)]

(***************************************************************************)
(* telemetry                                                               *)
(***************************************************************************)
\* What the sqlite3 calls of the try block may do.
DbOutcomes == {"ok", "connect_error", "execute_error", "commit_error"}

\* The clock counts half seconds.
Second(now) == now \div 2
Microsecond(now) == (now % 2) * 500000

\* The decimal digits of n, zero-padded to width w.
RECURSIVE Digits(_, _)
Digits(n, w) ==
    IF w = 0 THEN <<>>
    ELSE Digits(n \div 10, w - 1) \o
         << <<"0", "1", "2", "3", "4", "5", "6", "7", "8", "9">>[(n % 10) + 1] >>

\* datetime.now(timezone.utc).isoformat() from the seconds on, as a list of
\* characters: "SS+00:00" when the microsecond is 0, "SS.ffffff+00:00"
\* otherwise.  The part before the seconds is the same for every time.
Isoformat(now) ==
    Digits(Second(now), 2) \o
    (IF Microsecond(now) = 0 THEN <<>>
     ELSE <<".">> \o Digits(Microsecond(now), 6)) \o
    <<"+", "0", "0", ":", "0", "0">>

\* The code point of a character of such a text.
Ord(ch) ==
    CASE ch = "+" -> 43
      [] ch = "." -> 46
      [] ch = ":" -> 58
      [] OTHER -> 47 + CHOOSE d \in 1..10 : Digits(d - 1, 1) = <<ch>>

\* a < b for two TEXT values under sqlite's BINARY collation (memcmp, a
\* proper prefix first).
RECURSIVE TextLess(_, _)
TextLess(a, b) ==
    IF b = <<>> THEN FALSE
    ELSE IF a = <<>> THEN TRUE
    ELSE IF Head(a) # Head(b) THEN Ord(Head(a)) < Ord(Head(b))
    ELSE TextLess(Tail(a), Tail(b))

\* The row bound to the INSERT.
telemetry_row(now, payload) ==
    [time |-> Isoformat(now),
     lat |-> DictGet(payload, "lat"), lon |-> DictGet(payload, "lon"),
     alt |-> DictGet(payload, "alt"), batt |-> DictGet(payload, "batt"),
     meta |-> DictGet(payload, "meta")]

\* The try block with `except Exception: pass`.
telemetry_insert_swallow(rows, row, db) ==
    [store |-> IF db = "ok" THEN Append(rows, row) ELSE rows,
     failed |-> FALSE]

\* The try block without conn.commit(): close() drops the INSERT.
telemetry_insert_uncommitted(rows, row, db) ==
    [store |-> rows, failed |-> db # "ok"]

\* The try block: connect, execute, commit, close.  The table after it, and
\* whether `except Exception` was entered.  A row is in the table once
\* commit has returned; close() after a commit does not fail.
telemetry_insert(rows, row, db) ==
    IF db = "ok" THEN [store |-> Append(rows, row), failed |-> FALSE]
    ELSE [store |-> rows, failed |-> TRUE]

\* json.dumps(payload)
telemetry_message_bare(payload) == JsonDumpsDict(payload)

\* json.dumps({"type": "telemetry", "data": payload})
telemetry_message(payload) ==
    JsonObject(<< <<"type", JsonLit(PyStr("telemetry"))>>,
                  <<"data", JsonDumpsDict(payload)>> >>)

\* POST /api/telemetry, up to the first await of its broadcast.
Telemetry(q, payload, db, now) ==
    /\ req[q].pc = "new"
    /\ IsNext(ReqOrder, req, q)
    /\ LET ins == telemetry_insert(store, telemetry_row(now, payload), db)
           r0 == [req[q] EXCEPT !.kind = "telemetry", !.payload = payload,
                                !.db = db]
           f == broadcast(q, telemetry_message(payload), NoSender)
       IN /\ store' = ins.store
          /\ IF ins.failed
             THEN /\ req' = [req EXCEPT ![q] =
                               [r0 EXCEPT !.pc = "done",
                                          !.resp = ErrorResp(db)]]
                  /\ frame' = frame
                  /\ clock' = clock
             ELSE /\ req' = [req EXCEPT ![q] = handler_after(r0, f)]
                  /\ frame' = [frame EXCEPT ![q] = f]
                  /\ clock' = now
    /\ UNCHANGED <<active, ws, wire, disk, cloud, public_url>>

(***************************************************************************)
(* telemetry_recent                                                        *)
(***************************************************************************)
LIMIT_DEFAULT == 50
LIMIT_MIN == 1
LIMIT_MAX == 1000

\* The query strings a client may send: no limit (<<>>) or limit=n.
Limits == {<<>>, <<0>>, <<1>>, <<2>>, <<LIMIT_MAX>>, <<LIMIT_MAX + 1>>}

\* limit: int = Query(50, ...)
limit_param(given) == IF given = <<>> THEN LIMIT_DEFAULT ELSE given[1]

\* Query(50, ge=1, le=1000): the request is answered with a validation
\* error, and the handler is not called, unless this holds.
limit_valid(limit) == limit >= LIMIT_MIN /\ limit <= LIMIT_MAX

\* The orders of the rows (as lists of row numbers) that ORDER BY time ASC
\* may produce.
order_by_time_asc(rows) ==
    {p \in [1..Len(rows) -> 1..Len(rows)] :
        /\ \A i, j \in 1..Len(rows) : i # j => p[i] # p[j]
        /\ \A i, j \in 1..Len(rows) :
              i < j => ~TextLess(rows[p[j]].time, rows[p[i]].time)}

\* The orders of the rows that ORDER BY time DESC may produce: rows of equal
\* time come in an order sqlite does not specify.
order_by_time_desc(rows) ==
    {p \in [1..Len(rows) -> 1..Len(rows)] :
        /\ \A i, j \in 1..Len(rows) : i # j => p[i] # p[j]
        /\ \A i, j \in 1..Len(rows) :
              i < j => ~TextLess(rows[p[i]].time, rows[p[j]].time)}

\* The results SELECT ... ORDER BY time DESC LIMIT ? may return.
select_recent(rows, limit) ==
    LET n == IF limit < Len(rows) THEN limit ELSE Len(rows)
    IN {[i \in 1..n |-> rows[p[i]]] : p \in order_by_time_desc(rows)}

ValidationErrorResp == [status |-> "validation_error"]
RowsResp(out) == [status |-> "rows", rows |-> out]

\* GET /api/telemetry/recent
TelemetryRecent(q, given, db) ==
    /\ req[q].pc = "new"
    /\ IsNext(ReqOrder, req, q)
    /\ LET limit == limit_param(given)
           r0 == [req[q] EXCEPT !.kind = "recent", !.limit = limit,
                                !.pc = "done"]
       IN IF ~limit_valid(limit)
          THEN req' = [req EXCEPT ![q] = [r0 EXCEPT !.resp = ValidationErrorResp]]
          ELSE IF db # "ok"
          THEN req' = [req EXCEPT ![q] =
                          [r0 EXCEPT !.db = db, !.resp = ErrorResp(db)]]
          ELSE \E out \in select_recent(store, limit) :
                  req' = [req EXCEPT ![q] =
                             [r0 EXCEPT !.db = db, !.resp = RowsResp(out)]]
    /\ UNCHANGED <<active, ws, frame, wire, store, disk, clock, cloud,
                   public_url>>

(***************************************************************************)
(* upload_photo                                                            *)
(***************************************************************************)
\* The multipart fields a client may send.
Filenames == { <<"my", " ", "pic.jpg">> }
Contents == {"jpeg-bytes"}

\* request.base_url
BaseUrl == <<"http://hub.test", "/">>
\* Values PUBLIC_URL may be deployed with.
PublicUrls == { <<>>, <<"https://hub.example", "/">> }

RECURSIVE Join(_)
Join(pieces) ==
    IF pieces = <<>> THEN "" ELSE Head(pieces) \o Join(Tail(pieces))

\* str.replace(" ", "_")
Replace(pieces) ==
    [i \in 1..Len(pieces) |-> IF pieces[i] = " " THEN "_" ELSE pieces[i]]

\* str.rstrip("/")
RECURSIVE RStrip(_)
RStrip(pieces) ==
    IF pieces # <<>> /\ pieces[Len(pieces)] = "/"
    THEN RStrip(SubSeq(pieces, 1, Len(pieces) - 1))
    ELSE pieces

\* upload_photo without its token check.
upload_token_ok_any(token) == TRUE

\* `if token != AUTH_TOKEN` is false.
upload_token_ok(token) == token = AUTH_TOKEN

\* f"photo_{ts}_{file.filename}".replace(" ", "_")
safe_name(ts, filename) ==
    Join(Replace(<<"photo_", ToString(ts), "_">> \o filename))

\* os.path.join(PHOTOS_DIR, safe_name)
photo_path(name) == PHOTOS_DIR \o "/" \o name

\* f"{base}/photos/{safe_name}"
photo_url(name) ==
    LET base == IF public_url # <<>> THEN RStrip(public_url)
                ELSE RStrip(BaseUrl)
    IN Join(base) \o "/photos/" \o name

\* f"{url}"
photo_message_bare(url) == Str(url)

\* f"PHOTO:{url}"
photo_message(url) == "PHOTO:" \o Str(url)

\* What requests.post may do: raise, or return a status and a body.  The
\* body of a 200 or 201 answer is a JSON object, as the hosting service's
\* is, so that r.json() returns a dict: with both urls, with an empty
\* secure_url, or with neither.
SecureUrl == PyStr("https://cdn.test/s.jpg")
PlainUrl == PyStr("http://cdn.test/u.jpg")
RemoteOutcomes ==
    { [fault |-> TRUE, status |-> 0, body |-> <<>>],
      [fault |-> FALSE, status |-> 500, body |-> << <<"error", PyStr("x")>> >>],
      [fault |-> FALSE, status |-> 200,
       body |-> << <<"secure_url", SecureUrl>>, <<"url", PlainUrl>> >>],
      [fault |-> FALSE, status |-> 201,
       body |-> << <<"secure_url", PyStr("")>>, <<"url", PlainUrl>> >>],
      [fault |-> FALSE, status |-> 200, body |-> << <<"public_id", PyStr("p")>> >>] }

\* Without the status check.
upload_accepted_any_status(o) == ~o.fault

\* `r.status_code not in (200, 201)` is false, after a post that returned.
upload_accepted(o) == ~o.fault /\ o.status \in {200, 201}

\* resp.get("secure_url") or resp.get("url")
remote_url(body) == PyOr(DictGet(body, "secure_url"), DictGet(body, "url"))

\* POST /api/photo up to `await file.read()`.
PhotoRequest(q, token, filename, contents) ==
    /\ req[q].pc = "new"
    /\ IsNext(ReqOrder, req, q)
    /\ LET r0 == [req[q] EXCEPT !.kind = "photo", !.token = token,
                                !.filename = filename, !.contents = contents]
       IN req' = [req EXCEPT ![q] =
                    IF upload_token_ok(token)
                    THEN [r0 EXCEPT !.pc = "reading"]
                    ELSE [r0 EXCEPT !.pc = "done", !.resp = ForbiddenResp]]
    /\ UNCHANGED <<active, ws, frame, wire, store, disk, clock, cloud,
                   public_url>>

\* file.read() returned and Cloudinary is configured: one requests.post,
\* then the broadcast up to its first await.
PhotoRemote(q, o) ==
    /\ req[q].pc = "reading"
    /\ cloud
    /\ LET r0 == [req[q] EXCEPT !.posts = @ + 1, !.r = o]
           url == remote_url(o.body)
           r1 == [r0 EXCEPT !.url = url]
           f == broadcast(q, photo_message(url), NoSender)
       IN IF upload_accepted(o)
          THEN /\ req' = [req EXCEPT ![q] = handler_after(r1, f)]
               /\ frame' = [frame EXCEPT ![q] = f]
          ELSE /\ req' = [req EXCEPT ![q] =
                            [r0 EXCEPT !.pc = "done",
                                       !.resp = ErrorResp("cloud")]]
               /\ frame' = frame
    /\ UNCHANGED <<active, ws, wire, store, disk, clock, cloud, public_url>>

\* What open(path, "wb") and f.write may do: write the file; fail before
\* the file exists; fail after open() created or truncated it.
WriteOutcomes == {"ok", "open_error", "write_error"}

\* The files after the with block.
local_write(files, path, contents, w) ==
    LET others == {e \in files : e[1] # path}
    IN IF w = "ok" THEN others \cup {<<path, contents>>}
       ELSE IF w = "write_error" THEN others \cup {<<path, "">>}
       ELSE files

\* file.read() returned and Cloudinary is not configured: the local write,
\* then the broadcast up to its first await.
PhotoLocal(q, w, now) ==
    /\ req[q].pc = "reading"
    /\ ~cloud
    /\ clock' = now
    /\ LET name == safe_name(now, req[q].filename)
           r0 == [req[q] EXCEPT !.w = w]
           r1 == [r0 EXCEPT !.url = PyStr(photo_url(name))]
           f == broadcast(q, photo_message(r1.url), NoSender)
       IN /\ disk' = local_write(disk, photo_path(name), req[q].contents, w)
          /\ IF w = "ok"
             THEN /\ req' = [req EXCEPT ![q] = handler_after(r1, f)]
                  /\ frame' = [frame EXCEPT ![q] = f]
             ELSE /\ req' = [req EXCEPT ![q] =
                               [r0 EXCEPT !.pc = "done",
                                          !.resp = ErrorResp("write")]]
                  /\ frame' = frame
    /\ UNCHANGED <<active, ws, wire, store, cloud, public_url>>

(***************************************************************************)
(* A send_text awaited by broadcast completes                              *)
(***************************************************************************)
\* The awaited send_text of task t's broadcast returns (ok) or raises; the
\* loop goes on to its next await or to its end, and the caller resumes.
SendDone(t, ok) ==
    /\ Running(frame[t])
    /\ LET f == frame[t]
           conn == f.snap[f.i]
           h == IF ok THEN [active |-> active, raise |-> FALSE]
                ELSE broadcast_on_fail(active, conn)
           f2 == IF h.raise THEN [f EXCEPT !.raised = TRUE]
                 ELSE [f EXCEPT !.i = broadcast_next(f.snap, f.sender, f.i + 1)]
       IN /\ wire' = [wire EXCEPT ![conn] =
                        Append(@, [by |-> t, id |-> f.id, msg |-> f.msg,
                                   ok |-> ok])]
          /\ frame' = [frame EXCEPT ![t] = f2]
          /\ IF t \in Conns
             THEN LET k == relay_after(t, f2, h.active)
                  IN /\ ws' = [ws EXCEPT ![t].pc = k.pc]
                     /\ active' = k.active
                     /\ req' = req
             ELSE /\ req' = [req EXCEPT ![t] = handler_after(req[t], f2)]
                  /\ active' = h.active
                  /\ ws' = ws
    /\ UNCHANGED <<store, disk, clock, cloud, public_url>>

(***************************************************************************)
(* Specification                                                           *)
(***************************************************************************)
\* A websocket task before the endpoint is called.
NewWs == [pc |-> "new", token |-> "", close |-> 0, nrecv |-> 0, data |-> ""]

Init ==
    /\ active = <<>>
    /\ ws = [c \in Conns |-> NewWs]
    /\ req = [q \in Reqs |-> NewReq]
    /\ frame = [t \in Tasks |-> FirstFrame]
    /\ wire = [c \in Conns |-> <<>>]
    /\ store = <<>>
    /\ disk = {}
    /\ clock = 0
    /\ cloud \in BOOLEAN
    /\ public_url \in IF cloud THEN {<<>>} ELSE PublicUrls

\* The inbound text frames read so far.
Frames == SumRecv(ws, Conns)

\* A run of the service with two viewers and one ingestion request.
Next ==
    \/ \E c \in Viewers, token \in Tokens : WsOpen(c, token)
    \/ \E c \in Viewers : WsAccepted(c)
    \/ \E c \in Viewers : WsAcceptFails(c)
    \/ \E c \in Viewers, data \in Texts :
          Frames < MaxRelays /\ WsReceive(c, data)
    \/ \E c \in Viewers : WsDisconnect(c)
    \/ \E c \in Viewers : WsFault(c)
    \/ \E t \in Tasks, ok \in BOOLEAN : SendDone(t, ok)
    \/ \E q \in Reqs, payload \in Payloads, db \in DbOutcomes,
          now \in clock..MaxClock : Telemetry(q, payload, db, now)
    \/ \E q \in Reqs, token \in Tokens, filename \in Filenames,
          contents \in Contents : PhotoRequest(q, token, filename, contents)
    \/ \E q \in Reqs, o \in RemoteOutcomes : PhotoRemote(q, o)
    \/ \E q \in Reqs, w \in WriteOutcomes,
          now \in clock..MaxClock : PhotoLocal(q, w, now)

Spec == Init /\ [][Next]_vars

\* A relay-only run: three websockets and no ingestion request.  The relay
\* reads no configuration but AUTH_TOKEN.
InitRelay == Init /\ ~cloud /\ public_url = <<>>

NextRelay ==
    \/ \E c \in Conns, token \in Tokens : WsOpen(c, token)
    \/ \E c \in Conns : WsAccepted(c)
    \/ \E c \in Conns : WsAcceptFails(c)
    \/ \E c \in Conns :
          Frames < MaxMsgs /\ WsReceive(c, Script[Frames + 1])
    \/ \E c \in Conns : WsDisconnect(c)
    \/ \E c \in Conns : WsFault(c)
    \/ \E c \in Conns, ok \in BOOLEAN : SendDone(c, ok)

SpecRelay == InitRelay /\ [][NextRelay]_vars

\* The relay-only run in which every awaited send_text at last returns or
\* raises.
NextRelayFair ==
    \/ \E c \in Conns, token \in Tokens : WsOpen(c, token)
    \/ \E c \in Conns : WsAccepted(c)
    \/ \E c \in Conns : WsAcceptFails(c)
    \/ \E c \in Conns :
          Frames < MaxFairMsgs /\ WsReceive(c, Script[Frames + 1])
    \/ \E c \in Conns : WsDisconnect(c)
    \/ \E c \in Conns : WsFault(c)
    \/ \E c \in Conns, ok \in BOOLEAN : SendDone(c, ok)

SpecRelayFair ==
    /\ InitRelay /\ [][NextRelayFair]_vars
    /\ \A t \in Conns : WF_vars(\E ok \in BOOLEAN : SendDone(t, ok))

\* A query run: one GET /api/telemetry/recent on a table that earlier
\* requests filled.  The wall clock is not monotonic, so the rows' times
\* come in any order.
Tables ==
    LET inputs == (0..MaxTime) \X Payloads
    IN UNION {{[i \in 1..n |-> telemetry_row(s[i][1], s[i][2])] :
                  s \in [1..n -> inputs]} : n \in 0..MaxRows}

InitQuery ==
    /\ active = <<>>
    /\ ws = [c \in Conns |-> NewWs]
    /\ req = [q \in Reqs |-> NewReq]
    /\ frame = [t \in Tasks |-> FirstFrame]
    /\ wire = [c \in Conns |-> <<>>]
    /\ store \in Tables
    /\ disk = {}
    /\ clock = 0
    /\ cloud = FALSE
    /\ public_url = <<>>

NextQuery ==
    \E q \in Reqs, given \in Limits, db \in {"ok", "execute_error"} :
        TelemetryRecent(q, given, db)

SpecQuery == InitQuery /\ [][NextQuery]_vars

(***************************************************************************)
(* Properties                                                              *)
(***************************************************************************)
\* send_text(msg) was called on c by broadcast number id of task t.
Sent(c, t, id, msg) ==
    \E k \in 1..Len(wire[c]) :
        wire[c][k].by = t /\ wire[c][k].id = id /\ wire[c][k].msg = msg

\* That call raised.
Failed(c, t, id) ==
    \E k \in 1..Len(wire[c]) :
        wire[c][k].by = t /\ wire[c][k].id = id /\ ~wire[c][k].ok

\* That call returned.
Delivered(c, t, id) ==
    \E k \in 1..Len(wire[c]) :
        wire[c][k].by = t /\ wire[c][k].id = id /\ wire[c][k].ok

\* Some send_text on c has raised.
HasFailed(c) == \E k \in 1..Len(wire[c]) : ~wire[c][k].ok

\* The position of c in a list (0 when absent).
Pos(lst, c) ==
    IF In(lst, c) THEN CHOOSE i \in 1..Len(lst) : lst[i] = c ELSE 0

\* C1: a text frame read by the relay loop of c1 is sent, unchanged, to every
\* other connection c2 that was a member when it was read (as soon as the
\* loop of the broadcast has passed c2), and no broadcast of c1 ever sends
\* to c1 itself.
C1_RelayToOthersNotSender ==
    \A c1 \in Conns :
        LET f == frame[c1]
        IN /\ f.id > 0 =>
                /\ f.sender = c1
                /\ f.msg = ws[c1].data
                /\ \A j \in 1..Len(f.snap) :
                      (j < f.i /\ f.snap[j] # c1)
                          => Sent(f.snap[j], c1, f.id, f.msg)
           /\ \A k \in 1..Len(wire[c1]) : wire[c1][k].by # c1

\* A relay broadcast has returned whose snapshot holds three members with
\* the sender in the middle, and both others got the frame.
C1_Witness ==
    \E c1 \in Conns :
        LET f == frame[c1]
        IN /\ f.id > 0 /\ Returned(f)
           /\ Len(f.snap) = 3 /\ f.snap[2] = c1
           /\ Delivered(f.snap[1], c1, f.id)
           /\ Delivered(f.snap[3], c1, f.id)

\* C2: every member presented AUTH_TOKEN; a websocket that presented another
\* token is closed with 4001, is not a member, is in no broadcast's
\* snapshot and has had no send_text called on it.
C2_OnlyTokenHoldersAdmitted ==
    \A c \in Conns :
        /\ In(active, c) => ws[c].token = AUTH_TOKEN
        /\ (ws[c].pc # "new" /\ ws[c].token # AUTH_TOKEN) =>
              /\ ws[c].pc = "rejected"
              /\ ws[c].close = WS_CLOSE_AUTH
              /\ ~In(active, c)
              /\ wire[c] = <<>>
              /\ \A t \in Tasks : ~In(frame[t].snap, c)

\* A websocket was rejected, and an ingestion broadcast then delivered to
\* the one member.
C2_Witness ==
    \E c, d \in Conns : \E q \in Reqs :
        /\ ws[c].pc = "rejected"
        /\ ws[c].token # AUTH_TOKEN
        /\ frame[q].snap = <<d>>
        /\ Delivered(d, q, 1)

\* C3: a connection on which a send_text has raised is not a member; the
\* loop of a broadcast goes on after a failed send, so that every member of
\* the snapshot the loop has passed, the sender excepted, had the message
\* sent; no broadcast raises; and a broadcast that starts after the failure
\* does not have the failed connection in its snapshot.
C3_FailedSendPrunes ==
    /\ [](\A k \in Conns : HasFailed(k) => ~In(active, k))
    /\ [](\A t \in Tasks :
            /\ ~frame[t].raised
            /\ \A j \in 1..Len(frame[t].snap) :
                  (j < frame[t].i /\ frame[t].snap[j] # frame[t].sender)
                      => Sent(frame[t].snap[j], t, frame[t].id, frame[t].msg))
    /\ [][\A t \in Tasks :
            frame'[t].id # frame[t].id =>
                \A k \in Conns : HasFailed(k) => ~In(frame'[t].snap, k)]_vars

\* A broadcast over three members returned after the send to its first
\* recipient k failed and the send to a later one succeeded, and a second
\* broadcast, by that later recipient, then returned without k in its
\* snapshot.
C3_Witness ==
    \E c, k, d \in Conns :
        /\ Cardinality({c, k, d}) = 3
        /\ frame[c].id = 1 /\ Returned(frame[c])
        /\ Pos(frame[c].snap, k) > 0
        /\ Pos(frame[c].snap, k) < Pos(frame[c].snap, d)
        /\ Failed(k, c, 1)
        /\ Delivered(d, c, 1)
        /\ ~In(active, k)
        /\ frame[d].id = 1 /\ Returned(frame[d])
        /\ ~In(frame[d].snap, k)
        /\ Delivered(c, d, 1)

\* C4: a websocket whose relay loop has exited, through WebSocketDisconnect
\* or through any other exception, is not a member.
C4_ExitedLoopNotMember ==
    \A c \in Conns :
        ws[c].pc \in {"disconnected", "faulted"} => ~In(active, c)

\* Two members that had received a relayed frame left, one through
\* WebSocketDisconnect and one through another exception.
C4_Witness ==
    \E c, d \in Conns :
        /\ ws[c].pc = "disconnected" /\ wire[c] # <<>>
        /\ ws[d].pc = "faulted" /\ wire[d] # <<>>

\* No send_text was called by a broadcast of task t.
NothingSentBy(t) ==
    \A c \in Conns : \A k \in 1..Len(wire[c]) : wire[c][k].by # t

\* Every send_text of the first broadcast of task t over a snapshot of two
\* raised.
AllSendsFailed(t) ==
    /\ frame[t].id = 1 /\ Returned(frame[t])
    /\ Len(frame[t].snap) = 2
    /\ \A j \in 1..2 : Failed(frame[t].snap[j], t, 1)

\* C5: no call of broadcast raises; the relay loop of a connection whose
\* broadcast is under way stays in that broadcast; and a telemetry request
\* whose insert was committed answers {"status": "ok"}, whatever its sends
\* did.
C5_SendFailureNeverSurfaces ==
    /\ \A t \in Tasks : ~frame[t].raised
    /\ \A c \in Conns : Running(frame[c]) => ws[c].pc = "sending"
    /\ \A q \in Reqs :
          (req[q].kind = "telemetry" /\ req[q].db = "ok") =>
              /\ req[q].pc \in {"sending", "done"}
              /\ req[q].pc = "sending" <=> Running(frame[q])
              /\ req[q].pc = "done" => req[q].resp = OkResp

\* A telemetry request answered ok after both sends of its broadcast raised,
\* and after a relay loop went back to receive_text from a broadcast whose
\* send raised.
C5_Witness ==
    \E q \in Reqs : \E c, d \in Conns :
        /\ req[q].kind = "telemetry"
        /\ req[q].resp = OkResp
        /\ AllSendsFailed(q)
        /\ Failed(d, c, 1)
        /\ ws[c].pc = "receiving"

\* C6: a photo request with a token other than AUTH_TOKEN is answered 403
\* {"status": "forbidden"} in the step that receives it, and that step
\* leaves membership, the telemetry table, the photo directory, the sends
\* and the broadcasts as they were; the request posts nothing, writes
\* nothing and broadcasts nothing.
C6_ForbiddenPhotoNoEffect ==
    /\ [](\A q \in Reqs :
            (req[q].kind = "photo" /\ req[q].token # AUTH_TOKEN) =>
                /\ req[q].pc = "done"
                /\ req[q].resp = ForbiddenResp
                /\ req[q].posts = 0 /\ req[q].w = NoWrite
                /\ frame[q].id = 0
                /\ NothingSentBy(q))
    /\ [][\A q \in Reqs :
            (req[q].pc = "new" /\ req'[q].kind = "photo"
             /\ req'[q].token # AUTH_TOKEN) =>
                UNCHANGED <<active, frame, wire, store, disk>>]_vars

\* A photo request was refused while two viewers were members.
C6_Witness ==
    \E q \in Reqs :
        /\ req[q].resp = ForbiddenResp
        /\ req[q].token # AUTH_TOKEN
        /\ Len(active) = 2

\* The telemetry requests whose insert was committed.
Inserted == {q \in Reqs : req[q].kind = "telemetry" /\ req[q].db = "ok"}

\* C7: a telemetry request whose sqlite3 calls raised is answered 500
\* {"status": "error"}, adds no row to the table and calls no broadcast.
C7_InsertFailureSkipsBroadcast ==
    /\ Len(store) = Cardinality(Inserted)
    /\ \A q \in Reqs :
          (req[q].kind = "telemetry" /\ req[q].db # "ok") =>
              /\ req[q].pc = "done"
              /\ req[q].resp.status = "error"
              /\ req[q].resp.status_code = HTTP_ERROR
              /\ frame[q].id = 0
              /\ NothingSentBy(q)

\* The commit of a telemetry request failed while two viewers were members.
C7_Witness ==
    \E q \in Reqs :
        /\ req[q].kind = "telemetry"
        /\ req[q].db = "commit_error"
        /\ req[q].resp.status = "error"
        /\ Len(active) = 2

\* The text of the object {<tag>: "telemetry", "data": <payload>}.
Envelope(tag, payload) ==
    "{\"" \o tag \o "\": \"telemetry\", \"data\": "
        \o JsonDumpsDict(payload) \o "}"

\* A telemetry request whose insert was committed calls broadcast once, with
\* no sender, with the envelope tagged by the key `tag`; the envelope is
\* sent to every member of the snapshot, and the request answers ok.
TelemetryBroadcastsEnvelope(tag) ==
    \A q \in Inserted :
        LET f == frame[q]
        IN /\ f.id = 1
           /\ f.sender = NoSender
           /\ f.msg = Envelope(tag, req[q].payload)
           /\ \A j \in 1..Len(f.snap) :
                 j < f.i => Sent(f.snap[j], q, 1, f.msg)
           /\ req[q].pc = "done" => (Returned(f) /\ req[q].resp = OkResp)

\* C8 as stated: the envelope is {kind: "telemetry", data: sample}.
C8_Original == TelemetryBroadcastsEnvelope("kind")

\* C8, amended: a successful telemetry request calls broadcast exactly once,
\* with no excluded connection, with the text of
\* {"type": "telemetry", "data": sample}; the snapshot of that broadcast is
\* the membership at that moment, and every connection in it is sent the
\* envelope.
C8_TelemetryEnvelope ==
    /\ [](TelemetryBroadcastsEnvelope("type"))
    /\ [][\A q \in Reqs :
            frame'[q].id # frame[q].id => frame'[q].snap = active]_vars

\* A telemetry request answered ok after its envelope was delivered to two
\* viewers.
C8_Witness ==
    \E q \in Inserted :
        /\ req[q].resp = OkResp
        /\ Len(frame[q].snap) = 2
        /\ \A j \in 1..2 : Delivered(frame[q].snap[j], q, 1)
        /\ frame[q].msg =
             "{\"type\": \"telemetry\", \"data\": {\"lat\": 1.5, \"extra\": null}}"

\* The photo requests whose storage step succeeded.
Stored ==
    {q \in Reqs :
        /\ req[q].kind = "photo"
        /\ \/ req[q].w = "ok"
           \/ ~req[q].r.fault /\ req[q].r.status \in {200, 201}}

UploadFailed ==
    {q \in Reqs :
        /\ req[q].r # NoPost
        /\ req[q].r.fault \/ req[q].r.status \notin {200, 201}}

\* C10: with Cloudinary configured, a photo request whose requests.post
\* raised or returned a status other than 200 and 201 is answered 500
\* {"status": "error"} after that one post; nothing is written under
\* PHOTOS_DIR and no broadcast is called.
C10_UploadFailureIsFinal ==
    /\ cloud => disk = {}
    /\ \A q \in UploadFailed :
          /\ req[q].pc = "done"
          /\ req[q].resp.status = "error"
          /\ req[q].resp.status_code = HTTP_ERROR
          /\ req[q].posts = 1
          /\ req[q].w = NoWrite
          /\ frame[q].id = 0
          /\ NothingSentBy(q)

\* An upload was answered with status 500 while two viewers were members.
C10_Witness ==
    \E q \in UploadFailed :
        /\ ~req[q].r.fault
        /\ req[q].r.status = 500
        /\ req[q].resp.status = "error"
        /\ Len(active) = 2

\* The members of a list other than c, in order.
Others(lst, c) ==
    LET keep == {i \in 1..Len(lst) : lst[i] # c}
        nth(n) == CHOOSE i \in keep : Cardinality({j \in keep : j < i}) = n - 1
    IN [n \in 1..Cardinality(keep) |-> lst[nth(n)]]

\* C11: disconnect(c) raises nothing, whether c is a member or not; after
\* it c is not a member and the other members are as they were, in the same
\* order; it changes nothing when c is not a member, so that a second call
\* leaves what the first call left.
C11_RemoveIdempotent ==
    \A c \in Conns :
        LET once == disconnect(active, c)
        IN /\ once # ValueError
           /\ ~In(once, c)
           /\ once = Others(active, c)
           /\ ~In(active, c) => once = active
           /\ disconnect(once, c) = once

\* disconnect was called twice on a connection with other members present:
\* by a broadcast whose send to it raised, and by its own relay loop.
C11_Witness ==
    \E c \in Conns :
        /\ HasFailed(c)
        /\ ws[c].pc \in {"disconnected", "faulted"}
        /\ Len(active) = 2

\* The instant a stored time text was written at.
Instant(text) == CHOOSE now \in 0..(MaxTime + MaxClock) : Isoformat(now) = text

\* Requests answered by telemetry_recent with its rows.
Queried == {q \in Reqs : req[q].kind = "recent" /\ req[q].db = "ok"}

Min(a, b) == IF a < b THEN a ELSE b

\* limit clamped into [LIMIT_MIN, LIMIT_MAX].
Clamp(limit) ==
    IF limit < LIMIT_MIN THEN LIMIT_MIN
    ELSE IF limit > LIMIT_MAX THEN LIMIT_MAX ELSE limit

\* out is made of k different rows of the table, none older than a row that
\* is left out.
NewestOf(out, k) ==
    /\ Len(out) = k
    /\ \E p \in [1..k -> 1..Len(store)] :
          /\ \A i, j \in 1..k : i # j => p[i] # p[j]
          /\ \A i \in 1..k : out[i] = store[p[i]]
          /\ \A i \in 1..k, m \in 1..Len(store) :
                (\A j \in 1..k : p[j] # m) =>
                    Instant(store[m].time) <= Instant(out[i].time)

\* C12 as stated: the answer to recentTelemetry(limit) is the min(L, n)
\* newest rows, each strictly newer than the next, with L the limit clamped
\* into [1, 1000].
C12_Original ==
    \A q \in Reqs :
        (req[q].kind = "recent" /\ req[q].db # "execute_error") =>
            /\ req[q].resp.status = "rows"
            /\ NewestOf(req[q].resp.rows,
                        Min(Clamp(req[q].limit), Len(store)))
            /\ \A i, j \in 1..Len(req[q].resp.rows) :
                  i < j => Instant(req[q].resp.rows[i].time) >
                           Instant(req[q].resp.rows[j].time)

\* C12: a limit in [1, 1000] is answered with the min(limit, n) newest rows,
\* none older than the next; any other limit is answered with a validation
\* error and no rows; the table is not modified.
C12_RecentNewestFirst ==
    /\ [](\A q \in Queried :
            /\ limit_valid(req[q].limit)
            /\ req[q].resp.status = "rows"
            /\ NewestOf(req[q].resp.rows, Min(req[q].limit, Len(store)))
            /\ \A i, j \in 1..Len(req[q].resp.rows) :
                  i < j => Instant(req[q].resp.rows[i].time) >=
                           Instant(req[q].resp.rows[j].time))
    /\ [](\A q \in Reqs :
            (req[q].kind = "recent" /\ ~limit_valid(req[q].limit)) =>
                req[q].resp = ValidationErrorResp)
    /\ [][(\E q \in Reqs : req'[q].kind = "recent") => store' = store]_vars

\* limit=2 was answered from a table of three rows whose times differ and
\* are not in order.
C12_Witness ==
    \E q \in Queried :
        /\ req[q].limit = 2
        /\ Len(store) = 3
        /\ Instant(store[2].time) > Instant(store[3].time)
        /\ Instant(store[3].time) > Instant(store[1].time)
        /\ Len(req[q].resp.rows) = 2

\* The number of send_text calls on c by broadcast number id of task t.
Attempts(c, t, id) ==
    Cardinality({k \in 1..Len(wire[c]) :
                    wire[c][k].by = t /\ wire[c][k].id = id})

\* C13: the snapshot of a broadcast is the membership at the start of the
\* call and does not change during it; the broadcast has called send_text
\* once on every snapshot member its loop has passed, the sender excepted,
\* and on no other connection, one admitted during the call included; no
\* broadcast ever called send_text twice on one connection.
C13_SnapshotExactlyOnce ==
    /\ [](\A t \in Tasks, c \in Conns :
            /\ \A id \in 1..frame[t].id : Attempts(c, t, id) <= 1
            /\ frame[t].id > 0 =>
                  Attempts(c, t, frame[t].id) =
                      IF /\ In(frame[t].snap, c)
                         /\ c # frame[t].sender
                         /\ Pos(frame[t].snap, c) < frame[t].i
                      THEN 1 ELSE 0)
    /\ [][\A t \in Tasks :
            IF frame'[t].id # frame[t].id
            THEN frame'[t].snap = active
            ELSE frame'[t].snap = frame[t].snap]_vars

\* A broadcast awaits its send to a snapshot member that has been removed
\* since the call started, while a connection admitted since then is a
\* member and was sent nothing.
C13_Witness ==
    \E t, k, c \in Conns :
        /\ Running(frame[t])
        /\ frame[t].snap[frame[t].i] = k
        /\ ~In(active, k)
        /\ In(active, c) /\ ~In(frame[t].snap, c)
        /\ wire[c] = <<>>

\* The websocket passed the token check and accept() returned.
WasAdmitted(c) ==
    /\ ws[c].token = AUTH_TOKEN
    /\ ws[c].pc \in {"receiving", "sending", "disconnected", "faulted"}

\* C14 as stated: whenever a broadcast goes on to call send_text on a
\* connection, that connection is a member at that moment.
C14_Original ==
    [][\A t \in Tasks :
          (frame'[t] # frame[t] /\ Running(frame'[t])) =>
              In(active', frame'[t].snap[frame'[t].i])]_vars

\* C14: a broadcast calls send_text only on connections that were members
\* when the call started: its snapshot is made of members of that moment,
\* every one of them an admitted connection, and every send_text it has made
\* or awaits is on a connection of the snapshot.
C14_SendsToSnapshotMembers ==
    /\ [](\A t \in Tasks :
            /\ \A j \in 1..Len(frame[t].snap) : WasAdmitted(frame[t].snap[j])
            /\ \A c \in Conns :
                  Attempts(c, t, frame[t].id) > 0 => In(frame[t].snap, c))
    /\ [][\A t \in Tasks :
            frame'[t].id # frame[t].id =>
                \A j \in 1..Len(frame'[t].snap) :
                    In(active, frame'[t].snap[j])]_vars

\* A broadcast called send_text on a connection whose relay loop had ended,
\* and which was therefore no longer a member, after an earlier send of the
\* same broadcast.
C14_Witness ==
    \E t, k \in Conns :
        /\ Pos(frame[t].snap, k) > 1
        /\ Pos(frame[t].snap, k) < frame[t].i
        /\ Attempts(k, t, frame[t].id) = 1
        /\ \E j \in 1..(Pos(frame[t].snap, k) - 1) :
              Attempts(frame[t].snap[j], t, frame[t].id) = 1
        /\ ws[k].pc = "disconnected"
        /\ ws[k].nrecv = 0
        /\ wire[k][1].by = t

\* C15 as stated: the relay loop of a connection starts a broadcast only
\* while the connection is a member; a removed connection starts none.
C15_Original ==
    [][\A c \in Conns : frame'[c].id # frame[c].id => In(active, c)]_vars

NoDuplicates(lst) ==
    \A i, j \in 1..Len(lst) : lst[i] = lst[j] => i = j

\* C19: no connection is twice in the membership list, nor in the snapshot
\* of a broadcast.
C19_NoDuplicateMembers ==
    /\ NoDuplicates(active)
    /\ \A t \in Tasks : NoDuplicates(frame[t].snap)

\* Three connections are members after a broadcast over the three of them
\* returned.
C19_Witness ==
    /\ Len(active) = 3
    /\ \E t \in Conns : Returned(frame[t]) /\ Len(frame[t].snap) = 3

\* The table holds the row of sample payload.
Committed(payload) ==
    \E i \in 1..Len(store) :
        /\ store[i].lat = DictGet(payload, "lat")
        /\ store[i].lon = DictGet(payload, "lon")
        /\ store[i].alt = DictGet(payload, "alt")
        /\ store[i].batt = DictGet(payload, "batt")
        /\ store[i].meta = DictGet(payload, "meta")
        /\ Instant(store[i].time) <= clock

\* C16: from the moment a telemetry request has called broadcast, and so
\* whenever its envelope is or has been sent to a connection, the row of its
\* sample is in the table.
C16_PersistBeforeFanOut ==
    \A q \in Reqs :
        req[q].kind = "telemetry" =>
            /\ frame[q].id > 0 => Committed(req[q].payload)
            /\ \A c \in Conns :
                  (\E k \in 1..Len(wire[c]) : wire[c][k].by = q)
                      => Committed(req[q].payload)

\* A telemetry request awaits the first send of its envelope, with two
\* members to send to and its row in the table.
C16_Witness ==
    \E q \in Reqs :
        /\ req[q].kind = "telemetry"
        /\ req[q].pc = "sending"
        /\ Len(frame[q].snap) = 2 /\ frame[q].i = 1
        /\ NothingSentBy(q)
        /\ Len(store) = 1

\* C18: a relay loop reads its next frame only after the broadcast of the
\* previous one has returned, and the messages one connection was sent by
\* one sender are in the order in which the sender's loop read them.
C18_PerSenderFifo ==
    /\ [](\A s \in Conns :
            /\ ws[s].pc = "receiving" => ~Running(frame[s])
            /\ \A c \in Conns : \A k1, k2 \in 1..Len(wire[c]) :
                  (wire[c][k1].by = s /\ wire[c][k2].by = s /\ k1 < k2)
                      => wire[c][k1].id < wire[c][k2].id)
    /\ [][\A s \in Conns :
            frame'[s].id # frame[s].id => ~Running(frame[s])]_vars

\* One sender's first two frames were both delivered to another connection.
C18_Witness ==
    \E s, c \in Conns :
        /\ s # c
        /\ Len(wire[c]) = 2
        /\ wire[c][1] = [by |-> s, id |-> 1, msg |-> Script[1], ok |-> TRUE]
        /\ wire[c][2] = [by |-> s, id |-> 2, msg |-> Script[2], ok |-> TRUE]

\* The task presented AUTH_TOKEN.
PresentedSecret(t) ==
    IF t \in Conns THEN ws[t].token = AUTH_TOKEN
    ELSE req[t].token = AUTH_TOKEN

\* C20 as stated: every send_text was made by the broadcast of a task that
\* presented AUTH_TOKEN.
C20_Original ==
    \A c \in Conns : \A k \in 1..Len(wire[c]) :
        PresentedSecret(wire[c][k].by)

\* C20: every send_text was made by the broadcast of the relay loop of a
\* websocket that presented AUTH_TOKEN, of a photo request that presented
\* it, or of a telemetry request, which presents no token; a websocket or
\* photo request that presented another token causes no send_text.
C20_OnlyPhotoAndRelayNeedSecret ==
    /\ \A c \in Conns : \A k \in 1..Len(wire[c]) :
          \/ PresentedSecret(wire[c][k].by)
          \/ /\ wire[c][k].by \in Reqs
             /\ req[wire[c][k].by].kind = "telemetry"
             /\ req[wire[c][k].by].token = ""
    /\ \A t \in Tasks :
          (~PresentedSecret(t) /\ (t \in Reqs => req[t].kind = "photo"))
              => /\ frame[t].id = 0
                 /\ NothingSentBy(t)

\* A telemetry request, which carries no token, had its envelope delivered
\* to a member, and a websocket that presented a wrong token was rejected.
C20_Witness ==
    /\ \E q \in Reqs, c \in Conns :
          /\ req[q].kind = "telemetry" /\ req[q].token = ""
          /\ Delivered(c, q, 1)
    /\ \E c \in Conns : ws[c].pc = "rejected" /\ ws[c].token # AUTH_TOKEN

\* C17: when every awaited send_text at last returns or raises, every
\* broadcast that is started returns, whatever connections are admitted or
\* removed meanwhile; by then it has called send_text once on every member
\* of its snapshot but the sender, and every one on which the call raised is
\* out of the membership.
C17_BroadcastCompletes ==
    /\ \A t \in Conns : Running(frame[t]) ~> Returned(frame[t])
    /\ [](\A t \in Conns :
            (frame[t].id > 0 /\ Returned(frame[t])) =>
                \A j \in 1..Len(frame[t].snap) :
                    frame[t].snap[j] # frame[t].sender =>
                        /\ Attempts(frame[t].snap[j], t, frame[t].id) = 1
                        /\ Failed(frame[t].snap[j], t, frame[t].id)
                               => ~In(active, frame[t].snap[j]))

\* A broadcast returned after one of its two recipients had ended its relay
\* loop during the call and the send to the other had raised.
C17_Witness ==
    \E t, k, d \in Conns :
        /\ frame[t].id > 0 /\ Returned(frame[t])
        /\ frame[t].snap = <<t, k, d>>
        /\ Failed(k, t, frame[t].id)
        /\ ws[d].pc = "disconnected"
        /\ ws[d].nrecv = 0 /\ ws[k].nrecv = 0
        /\ frame[t].id = 1

====
